---- MODULE Spec2Model ----
(***************************************************************************)
(* Model of deepspeed/runtime/compiler.py: the torch.compile configuration *)
(* (CompileConfig, get_compile_config), the backend resolver               *)
(* (get_backend_fn) and the lazily compiling CompiledModuleWrapper.        *)
(*                                                                         *)
(* Python values are tagged records.  A Python str is [kind |-> "str",     *)
(* s |-> <<characters>>], so that str.split and str.join are computed      *)
(* character by character.  A raised exception is a result whose err field *)
(* names the exception; "none" means the call returned.                    *)
(***************************************************************************)
EXTENDS Integers, Sequences, FiniteSets, TLC

\* ------------------------------------------------------------------ bounds
\* Longest backend name enumerated when get_backend_fn is checked on its own.
MaxLen == 4
\* Most invocations of the wrapper (forward) in one behaviour.
MaxForward == 2
\* Most failures of the compile step in one behaviour.
MaxFailures == 1

\* ------------------------------------------------------------------ values
None == [kind |-> "none"]
Str(chars) == [kind |-> "str", s |-> chars]
Callable(id) == [kind |-> "callable", id |-> id]
IntVal(n) == [kind |-> "int", n |-> n]
\* The object getattr(module, fn_name) returns.
Attr(module_name, fn_name) == [kind |-> "attr", module |-> module_name, name |-> fn_name]

isinstance_str(v) == v.kind = "str"
\* Functions and attributes of backend modules are callable; str and int are not.
callable(v) == v.kind \in {"callable", "attr"}

Ok(v) == [err |-> "none", val |-> v]
Raise(e) == [err |-> e, val |-> None]

\* The exceptions of the module, named by type and message.
UnsupportedFeature == "ValueError: torch.compile is not supported on this version of PyTorch."
InvalidBackendType == "ValueError: backend for torch.compile must be a string or Callable"
BackendImportFailure == "ValueError: Could not import module for torch.compile backend."
EmptyModuleName == "ValueError: Empty module name"
RelativeImport == "TypeError: the 'package' argument is required to perform a relative import"
MissingAttribute == "AttributeError: module has no attribute"
NotSupportedAssert == "AssertionError: torch.compile is not supported on this version of PyTorch."
NoneHasNoBackend == "AttributeError: 'NoneType' object has no attribute 'backend'"
DuplicateBackendKeyword == "TypeError: got multiple values for keyword argument 'backend'"
CompileFailed == "Exception: compile step failed"

\* ------------------------------------------------------------------ strings
Dot == "."

\* Index of the first sep in s, 0 when there is none.
RECURSIVE FindFrom(_, _, _)
FindFrom(s, sep, i) ==
    IF i > Len(s) THEN 0
    ELSE IF s[i] = sep THEN i
    ELSE FindFrom(s, sep, i + 1)

\* str.split(sep): the segments between the separators; "" splits into [""].
RECURSIVE SplitRec(_, _)
SplitRec(s, sep) ==
    LET i == FindFrom(s, sep, 1)
    IN  IF i = 0 THEN <<s>>
        ELSE <<SubSeq(s, 1, i - 1)>> \o SplitRec(SubSeq(s, i + 1, Len(s)), sep)

Split(s, sep) == SplitRec(s, sep)

\* sep.join(segs)
RECURSIVE Join(_, _)
Join(segs, sep) ==
    IF Len(segs) = 0 THEN << >>
    ELSE IF Len(segs) = 1 THEN segs[1]
    ELSE segs[1] \o <<sep>> \o Join(Tail(segs), sep)

\* ------------------------------------------------------------- host imports
\* The modules importlib can import on the host, each with its attributes.
\* "a" is a package holding the submodule "a.b"; "b" does not exist.
ImportableModules == { <<"a">>, <<"a", ".", "b">> }

ModuleAttrs(m) ==
    IF m = <<"a">> THEN { <<"b">>, <<"a", "b">> }
    ELSE IF m = <<"a", ".", "b">> THEN { <<"a">> }
    ELSE {}

\* importlib.import_module(name) with no package argument.
import_module(name) ==
    IF Len(name) > 0 /\ name[1] = Dot THEN Raise(RelativeImport)
    ELSE IF Len(name) = 0 THEN Raise(EmptyModuleName)
    ELSE IF name \in ImportableModules THEN Ok([kind |-> "module", name |-> name])
    ELSE Raise("ImportError")

\* getattr(module, fn_name)
getattr(module, fn_name) ==
    IF fn_name \in ModuleAttrs(module.name) THEN Ok(Attr(module.name, fn_name))
    ELSE Raise(MissingAttribute)

\* ---------------------------------------------------------- get_backend_fn
\* backend_name is the character sequence of the Python str.
get_backend_fn(backend_name) ==
    LET parts == Split(backend_name, Dot)
        module_name == Join(SubSeq(parts, 1, Len(parts) - 1), Dot)
        fn_name == parts[Len(parts)]
        imported == import_module(module_name)
    IN  IF imported.err = "ImportError" THEN Raise(BackendImportFailure)
        ELSE IF imported.err # "none" THEN imported
        ELSE getattr(imported.val, fn_name)

\* ------------------------------------------------------------------- state
VARIABLES
    supported,        \* is_compile_supported(): hasattr(torch, "compile")
    cfg,              \* the CompileConfig built by get_compile_config, or None
    phase,            \* "start", "configured", "constructed", "construct_failed"
    modules_wrapped,  \* self._modules['wrapped']
    wrapped,          \* self.__dict__['wrapped']
    is_compiled,      \* self._is_compiled
    backend,          \* self._backend
    compile_kwargs,   \* self._compile_kwargs
    compiler_fn,      \* self._compiler_fn
    last,             \* the last call made: [op, arg, err]
    fwd_calls,        \* invocations of the wrapper so far
    host_calls,       \* calls of torch.compile so far
    host_args,        \* arguments of the latest torch.compile call
    fn_calls,         \* calls of each custom compiler function so far
    compile_failures, \* compile steps that raised so far
    wrapped_assigns,  \* assignments to __dict__['wrapped'] after construction
    callee,           \* the object the latest invocation delegated to
    delegations,      \* calls delegated to the wrapped object so far
    installed,        \* functions given to set_compiler_fn before the first invocation
    backend_name,     \* argument of the latest get_backend_fn call checked alone
    resolved          \* its result

wrapper_vars == <<modules_wrapped, wrapped, is_compiled, backend, compile_kwargs, compiler_fn>>
ghost_vars == <<fwd_calls, host_calls, host_args, fn_calls, compile_failures, wrapped_assigns, callee,
                delegations, installed>>
resolver_vars == <<backend_name, resolved>>
vars == <<supported, cfg, phase, wrapper_vars, last, ghost_vars, resolver_vars>>

\* ------------------------------------------------------------------ inputs
Inductor == Str(<<"i", "n", "d", "u", "c", "t", "o", "r">>)
CudaGraphs == Str(<<"c", "u", "d", "a", "g", "r", "a", "p", "h", "s">>)
\* torch._dynamo.list_backends(): the names the host engine knows natively.
list_backends == {Inductor.s, CudaGraphs.s}

ImportablePath == Str(<<"a", ".", "b">>)       \* module "a", attribute "b"
UnimportablePath == Str(<<"b", ".", "a">>)     \* no module "b"
NoDotName == Str(<<"a", "b">>)                 \* not a built-in name, no dot
MyBackend == Callable("my_backend")
NotABackend == IntVal(5)

BackendInputs == {Inductor, ImportablePath, UnimportablePath, NoDotName, MyBackend, NotABackend}

MaxAutotune == Str(<<"m", "a", "x", "-", "a", "u", "t", "o", "t", "u", "n", "e">>)
ReduceOverhead == Str(<<"r", "e", "d", "u", "c", "e", "-", "o", "v", "e", "r", "h", "e", "a", "d">>)

EmptyDict == << >>
\* kwargs of the "compile" section of the configuration.
ConfigKwargsInputs == {EmptyDict, "mode" :> MaxAutotune, "backend" :> ImportablePath}
\* Arguments of set_torch_compile_kwargs.
KwargsInputs ==
    { "mode" :> ReduceOverhead,
      "backend" :> MyBackend,
      ("backend" :> ImportablePath) @@ ("mode" :> ReduceOverhead),
      "backend" :> NoDotName,
      "backend" :> NotABackend }

CompilerFnInputs == {None, Callable("f1"), Callable("f2")}
CompilerFns == {"f1", "f2"}

Original == [kind |-> "module_obj", id |-> "original"]

\* ------------------------------------------------------------------- dicts
\* dict.update
Update(d, e) == [k \in DOMAIN d \cup DOMAIN e |-> IF k \in DOMAIN e THEN e[k] ELSE d[k]]
\* del d[key]
Del(d, key) == [k \in DOMAIN d \ {key} |-> d[k]]
Get(d, key, default) == IF key \in DOMAIN d THEN d[key] ELSE default

\* ------------------------------------------------------------ CompileConfig
is_compile_supported == supported

\* @validator("enabled")
\* (validate_enabled_unchecked is the variant without the host test)
validate_enabled_unchecked(field_value) == Ok(None)

validate_enabled(field_value) ==
    IF field_value /\ ~is_compile_supported THEN Raise(UnsupportedFeature)
    ELSE Ok(None)

\* @validator("backend"): the value the field takes, or the error raised.
\* (validate_backend_always_resolve is the variant without the list_backends
\* test, validate_backend_no_type_check the one without the callable test)
validate_backend_always_resolve(field_value) ==
    IF is_compile_supported THEN
        IF isinstance_str(field_value) THEN get_backend_fn(field_value.s)
        ELSE IF ~callable(field_value) THEN Raise(InvalidBackendType)
        ELSE Ok(field_value)
    ELSE Ok(field_value)

validate_backend_no_type_check(field_value) ==
    IF is_compile_supported /\ isinstance_str(field_value)
          /\ field_value.s \notin list_backends
    THEN get_backend_fn(field_value.s)
    ELSE Ok(field_value)

validate_backend(field_value) ==
    IF is_compile_supported THEN
        IF isinstance_str(field_value) THEN
            IF field_value.s \notin list_backends
            THEN get_backend_fn(field_value.s)
            ELSE Ok(field_value)
        ELSE IF ~callable(field_value) THEN Raise(InvalidBackendType)
        ELSE Ok(field_value)
    ELSE Ok(field_value)

\* CompileConfig(**compile_config_dict): a field that is absent takes its
\* default and is not validated; the errors of all fields are collected.
CompileConfig(d) ==
    LET e == IF "enabled" \in DOMAIN d THEN validate_enabled(d["enabled"]) ELSE Ok(None)
        b == IF "backend" \in DOMAIN d THEN validate_backend(d["backend"]) ELSE Ok(Inductor)
        errors == {e.err, b.err} \ {"none"}
    IN  [errors |-> errors,
         val |-> IF errors = {} THEN
                     [enabled |-> Get(d, "enabled", FALSE),
                      backend |-> b.val,
                      kwargs |-> Get(d, "kwargs", EmptyDict)]
                 ELSE None]

COMPILE_CONFIG == "compile"

get_compile_config(param_dict) ==
    LET compile_config_dict ==
            IF COMPILE_CONFIG \in DOMAIN param_dict THEN param_dict[COMPILE_CONFIG]
            ELSE EmptyDict
    IN  CompileConfig(compile_config_dict)

\* The "compile" sections tried: each field present or absent.
CompileSection(dom, e, b, k) ==
    [f \in dom |-> IF f = "enabled" THEN e ELSE IF f = "backend" THEN b ELSE k]

\* get_compile_config(param_dict) called by the engine set-up.
GetCompileConfig(param_dict) ==
    /\ phase = "start"
    /\ LET r == get_compile_config(param_dict)
       IN  /\ cfg' = r.val
           /\ last' = [op |-> "get_compile_config", arg |-> param_dict,
                       err |-> IF r.errors = {} THEN "none" ELSE "ValidationError",
                       errors |-> r.errors]
    /\ phase' = "configured"
    /\ UNCHANGED <<supported, wrapper_vars, ghost_vars, resolver_vars>>

\* ---------------------------------------------------- CompiledModuleWrapper
\* __init__(module, compile_config)
Construct(module, compile_config) ==
    /\ phase \in {"start", "configured"}
    /\ LET err == IF ~is_compile_supported THEN NotSupportedAssert
                  ELSE IF compile_config = None THEN NoneHasNoBackend
                  ELSE "none"
       IN  /\ last' = [op |-> "__init__", arg |-> compile_config, err |-> err]
           /\ IF err = "none" THEN
                  /\ modules_wrapped' = module
                  /\ wrapped' = module
                  /\ is_compiled' = FALSE
                  /\ backend' = compile_config.backend
                  /\ compile_kwargs' = compile_config.kwargs
                  /\ compiler_fn' = None
                  /\ phase' = "constructed"
              ELSE
                  /\ phase' = "construct_failed"
                  /\ UNCHANGED wrapper_vars
    /\ UNCHANGED <<supported, cfg, ghost_vars, resolver_vars>>

\* The effect of set_backend(backend) on self._backend: the value stored, or
\* the error raised.
\* (set_backend_lookup is the variant that passes a built-in name through)
set_backend_lookup(v) ==
    IF isinstance_str(v) THEN
        IF v.s \in list_backends THEN Ok(v) ELSE get_backend_fn(v.s)
    ELSE IF callable(v) THEN Ok(v)
    ELSE Raise(InvalidBackendType)

set_backend(v) ==
    IF isinstance_str(v) THEN get_backend_fn(v.s)
    ELSE IF callable(v) THEN Ok(v)
    ELSE Raise(InvalidBackendType)

SetBackend(v) ==
    /\ phase = "constructed"
    /\ LET r == set_backend(v)
       IN  /\ backend' = IF r.err = "none" THEN r.val ELSE backend
           /\ last' = [op |-> "set_backend", arg |-> v, err |-> r.err]
    /\ UNCHANGED <<supported, cfg, phase, modules_wrapped, wrapped, is_compiled,
                   compile_kwargs, compiler_fn, ghost_vars, resolver_vars>>

\* The options stored by set_torch_compile_kwargs(kwargs) once set_backend has
\* returned: kwargs loses its "backend" entry and is merged into the stored
\* dict.  aliased: kwargs is the stored dict object itself.
\* (merged_kwargs_keep_backend is the variant without the del)
merged_kwargs_keep_backend(stored, kwargs, aliased) ==
    Update(stored, kwargs)

merged_kwargs(stored, kwargs, aliased) ==
    LET has == "backend" \in DOMAIN kwargs
        passed == IF has THEN Del(kwargs, "backend") ELSE kwargs
        target == IF aliased THEN passed ELSE stored
    IN  Update(target, passed)

\* set_torch_compile_kwargs(kwargs)
SetTorchCompileKwargs(o, aliased) ==
    /\ phase = "constructed"
    /\ LET kwargs == IF aliased THEN compile_kwargs ELSE o
           r == IF "backend" \in DOMAIN kwargs THEN set_backend(kwargs["backend"])
                ELSE Ok(backend)
       IN  /\ backend' = IF r.err = "none" THEN r.val ELSE backend
           /\ compile_kwargs' = IF r.err = "none"
                                THEN merged_kwargs(compile_kwargs, kwargs, aliased)
                                ELSE compile_kwargs
           /\ last' = [op |-> "set_torch_compile_kwargs",
                       arg |-> [kwargs |-> kwargs, aliased |-> aliased],
                       err |-> r.err]
    /\ UNCHANGED <<supported, cfg, phase, modules_wrapped, wrapped, is_compiled,
                   compiler_fn, ghost_vars, resolver_vars>>

\* set_compiler_fn(compiler_fn)
SetCompilerFn(f) ==
    /\ phase = "constructed"
    /\ compiler_fn' = f
    /\ last' = [op |-> "set_compiler_fn", arg |-> f, err |-> "none"]
    /\ installed' = IF fwd_calls = 0 /\ f # None THEN installed \cup {f.id} ELSE installed
    /\ UNCHANGED <<supported, cfg, phase, modules_wrapped, wrapped, is_compiled,
                   backend, compile_kwargs, fwd_calls, host_calls, host_args, fn_calls,
                   compile_failures, wrapped_assigns, callee, delegations, resolver_vars>>

\* forward, line 150: compile on this invocation?
\* (always_compile is the variant that ignores the flag)
always_compile == TRUE

needs_compile == ~is_compiled

\* forward, line 151: compile with torch.compile rather than the custom function?
\* (always_host is the variant that ignores the custom function)
always_host == TRUE

use_host_engine == compiler_fn = None

\* torch.compile(module, backend=b, **kwargs).  Python rejects the call when
\* kwargs repeats the keyword "backend"; otherwise the engine returns the
\* optimised module or raises (ok says which).
torch_compile(module, b, kwargs, ok) ==
    IF "backend" \in DOMAIN kwargs THEN Raise(DuplicateBackendKeyword)
    ELSE IF ok THEN Ok([kind |-> "compiled", by |-> "torch.compile", of |-> module,
                        backend |-> b, kwargs |-> kwargs])
    ELSE Raise(CompileFailed)

\* self._compiler_fn(module): the user's function returns a compiled module or
\* raises (ok says which).
call_compiler_fn(fn, module, ok) ==
    IF ok THEN Ok([kind |-> "compiled", by |-> fn.id, of |-> module,
                   backend |-> None, kwargs |-> EmptyDict])
    ELSE Raise(CompileFailed)

\* The flag after an invocation whose compile step ended with err.
\* (flag_set_before_compile is the variant that sets it before compiling)
flag_set_before_compile(compiling, err) == is_compiled \/ compiling

flag_after(compiling, err) == is_compiled \/ (compiling /\ err = "none")

\* The wrapped slot after an invocation whose compile step returned r.
\* (wrapped_after_store_any is the variant that stores whatever came back)
wrapped_after_store_any(compiling, r) == IF compiling THEN r.val ELSE wrapped

wrapped_after(compiling, r) == IF compiling /\ r.err = "none" THEN r.val ELSE wrapped

\* forward(*args, **kwargs); ok: whether a compile step made now succeeds.
Forward(ok) ==
    /\ phase = "constructed"
    /\ fwd_calls < MaxForward
    /\ ok \/ compile_failures < MaxFailures
    /\ LET compiling == needs_compile
           host == compiling /\ use_host_engine
           custom == compiling /\ ~use_host_engine
           r == IF host THEN torch_compile(wrapped, backend, compile_kwargs, ok)
                ELSE IF custom THEN call_compiler_fn(compiler_fn, wrapped, ok)
                ELSE Ok(wrapped)
           failed == r.err # "none"
       IN  /\ wrapped' = wrapped_after(compiling, r)
           /\ is_compiled' = flag_after(compiling, r.err)
           /\ wrapped_assigns' = IF compiling /\ ~failed THEN wrapped_assigns + 1
                                 ELSE wrapped_assigns
           /\ host_calls' = IF host THEN host_calls + 1 ELSE host_calls
           /\ host_args' = IF host THEN [module |-> wrapped, backend |-> backend,
                                         kwargs |-> compile_kwargs]
                           ELSE host_args
           /\ fn_calls' = IF custom
                          THEN [fn_calls EXCEPT ![compiler_fn.id] = @ + 1]
                          ELSE fn_calls
           /\ compile_failures' = IF failed THEN compile_failures + 1 ELSE compile_failures
           /\ callee' = IF failed THEN callee ELSE wrapped'
           /\ delegations' = IF failed THEN delegations ELSE delegations + 1
           /\ last' = [op |-> "forward",
                       arg |-> [compiling |-> compiling, fn |-> compiler_fn],
                       err |-> r.err]
    /\ fwd_calls' = fwd_calls + 1
    /\ UNCHANGED <<supported, cfg, phase, modules_wrapped, backend, compile_kwargs,
                   compiler_fn, installed, resolver_vars>>

\* ------------------------------------------------------------ specification
NoCall == [op |-> "none", arg |-> None, err |-> "none"]
NoHostArgs == [module |-> None, backend |-> None, kwargs |-> EmptyDict]
Pending == [err |-> "pending", val |-> None]

InitWrapper ==
    /\ cfg = None
    /\ phase = "start"
    /\ modules_wrapped = None
    /\ wrapped = None
    /\ is_compiled = FALSE
    /\ backend = None
    /\ compile_kwargs = EmptyDict
    /\ compiler_fn = None
    /\ last = NoCall
    /\ fwd_calls = 0
    /\ host_calls = 0
    /\ host_args = NoHostArgs
    /\ fn_calls = [f \in CompilerFns |-> 0]
    /\ compile_failures = 0
    /\ wrapped_assigns = 0
    /\ callee = None
    /\ delegations = 0
    /\ installed = {}

Init ==
    /\ supported \in BOOLEAN
    /\ InitWrapper
    /\ backend_name = << >>
    /\ resolved = Pending

\* The configurations the wrapper is built from: no "compile" section, the
\* documented example, a section whose kwargs carry a "backend" entry, and a
\* section whose backend cannot be resolved.
AllFields == {"enabled", "backend", "kwargs"}
ExampleSection == CompileSection(AllFields, TRUE, Inductor, "mode" :> MaxAutotune)
ParamDicts ==
    { EmptyDict,
      COMPILE_CONFIG :> ExampleSection,
      COMPILE_CONFIG :> CompileSection({"backend", "kwargs"}, FALSE, MyBackend,
                                       "backend" :> ImportablePath),
      COMPILE_CONFIG :> CompileSection({"backend"}, FALSE, NoDotName, EmptyDict) }

Next ==
    \/ \E param_dict \in ParamDicts : GetCompileConfig(param_dict)
    \/ Construct(Original, cfg)
    \/ \E v \in BackendInputs : SetBackend(v)
    \/ \E o \in KwargsInputs, aliased \in BOOLEAN : SetTorchCompileKwargs(o, aliased)
    \/ \E f \in CompilerFnInputs : SetCompilerFn(f)
    \/ \E ok \in BOOLEAN : Forward(ok)

Spec == Init /\ [][Next]_vars

\* Configuration and construction on their own: every "compile" section.
NextConfig ==
    \/ \E dom \in SUBSET AllFields, e \in BOOLEAN,
          b \in BackendInputs, k \in ConfigKwargsInputs :
          GetCompileConfig(COMPILE_CONFIG :> CompileSection(dom, e, b, k))
    \/ GetCompileConfig(EmptyDict)
    \/ Construct(Original, cfg)

SpecConfig == Init /\ [][NextConfig]_vars

\* get_backend_fn on its own: every name of at most MaxLen characters.
Alphabet == {"a", "b", Dot}
Names == UNION {[1..n -> Alphabet] : n \in 0..MaxLen}

ResolveBackend(name) ==
    /\ backend_name' = name
    /\ resolved' = get_backend_fn(name)
    /\ UNCHANGED <<supported, cfg, phase, wrapper_vars, last, ghost_vars>>

InitResolver ==
    /\ supported = TRUE
    /\ InitWrapper
    /\ backend_name = << >>
    /\ resolved = Pending

NextResolver == \E name \in Names : ResolveBackend(name)

SpecResolver == InitResolver /\ [][NextResolver]_vars

\* ===================================================================== claims
Constructed == phase = "constructed"
compile_steps == host_calls + fn_calls["f1"] + fn_calls["f2"]
\* The value the compile step of the code returns for the original module.
HostCompiled(b, kwargs) ==
    [kind |-> "compiled", by |-> "torch.compile", of |-> Original, backend |-> b,
     kwargs |-> kwargs]
FnCompiled(fn) ==
    [kind |-> "compiled", by |-> fn.id, of |-> Original, backend |-> None,
     kwargs |-> EmptyDict]

\* (the state part and the step part of C1)
C1_State ==
    (Constructed /\ compile_failures = 0) =>
        /\ compile_steps = (IF fwd_calls >= 1 THEN 1 ELSE 0)
        /\ is_compiled <=> fwd_calls >= 1
C1_Step ==
    is_compiled =>
        /\ is_compiled'
        /\ host_calls' = host_calls
        /\ fn_calls' = fn_calls
\* C1: with no failing compile step, whatever setters are interleaved, the
\* compile step (torch.compile or the custom function) has run exactly once as
\* soon as the wrapper has been invoked once and not at all before;
\* is_compiled is false before the first invocation and true after it; once
\* true it stays true, and no later call (setter or invocation) compiles again.
C1_CompileOnce == [](C1_State) /\ [][C1_Step]_vars

\* C1 witness: as many invocations as the bound allows, none failed, a setter
\* called after the first one, one compile step in all.
C1_Witness ==
    /\ Constructed
    /\ fwd_calls = MaxForward
    /\ compile_failures = 0
    /\ compile_steps = 1
    /\ is_compiled
    /\ last.op = "set_backend" /\ last.err = "none"
    /\ wrapped.kind = "compiled" /\ wrapped.backend # backend

C2_FirstStep ==
    (Constructed /\ fwd_calls = 0 /\ fwd_calls' = 1 /\ compiler_fn # None
        /\ last'.err = "none") =>
        /\ fn_calls' = [f \in CompilerFns |-> IF f = compiler_fn.id THEN 1 ELSE 0]
        /\ host_calls' = 0
        /\ wrapped' = FnCompiled(compiler_fn)
        /\ is_compiled'
C2_LaterStep ==
    (is_compiled /\ wrapped.by # "torch.compile") =>
        /\ fn_calls' = fn_calls
        /\ host_calls' = host_calls
        /\ wrapped' = wrapped
C3_State ==
    Constructed =>
        /\ is_compiled =>
              /\ wrapped # modules_wrapped
              /\ \/ wrapped = FnCompiled(Callable(wrapped.by))
                 \/ wrapped = HostCompiled(host_args.backend, host_args.kwargs)
        /\ ~is_compiled => wrapped = Original
        /\ modules_wrapped = Original
        /\ wrapped_assigns = (IF is_compiled THEN 1 ELSE 0)
C3_Step ==
    (Constructed /\ wrapped' # wrapped) =>
        /\ last'.op = "forward"
        /\ ~is_compiled /\ is_compiled'
\* C3: is_compiled true means the wrapped slot holds the replacement the
\* compile step returned for the original module and not the original;
\* is_compiled false means it holds the original; the slot is assigned once,
\* by the invocation that compiles, and by no other call.
C3_WrappedSlot == [](C3_State) /\ [][C3_Step]_vars

\* C3 witness: a compile step failed, a later one succeeded, setters were
\* called afterwards: the slot holds the replacement, assigned once.
C3_Witness ==
    /\ Constructed
    /\ is_compiled
    /\ compile_failures = 1
    /\ wrapped.kind = "compiled" /\ wrapped.of = Original
    /\ wrapped_assigns = 1
    /\ last.op = "set_compiler_fn"

\* The step is a call of set_torch_compile_kwargs that returned, with a
\* "backend" entry in its argument.
KwargsCallWithBackend ==
    /\ last'.op = "set_torch_compile_kwargs"
    /\ last'.err = "none"
    /\ "backend" \in DOMAIN last'.arg.kwargs
\* What routing v through set_backend stores: a callable as it is, a dotted
\* path as the attribute it names.
Routed(v) ==
    IF v = MyBackend THEN MyBackend
    ELSE IF v = ImportablePath THEN Attr(<<"a">>, <<"b">>)
    ELSE None
\* The entries of o other than "backend".
WithoutBackend(o) == [k \in DOMAIN o \ {"backend"} |-> o[k]]

\* (the step C4 describes)
C4_Step ==
    KwargsCallWithBackend =>
        /\ backend' = Routed(last'.arg.kwargs["backend"])
        /\ compile_kwargs' = Update(compile_kwargs, WithoutBackend(last'.arg.kwargs))
        /\ "backend" \notin DOMAIN compile_kwargs'
\* C4 as stated: after set_torch_compile_kwargs(o) with a "backend" entry has
\* returned, the stored backend is o["backend"] routed through set_backend,
\* the stored options are the previous ones updated with the other entries of
\* o, and the stored options hold no "backend" key.
C4_Original == [][C4_Step]_vars

\* (the step the amended C4 describes)
C4_AmendedStep ==
    (KwargsCallWithBackend /\ ~last'.arg.aliased) =>
        /\ backend' = Routed(last'.arg.kwargs["backend"])
        /\ compile_kwargs' = Update(compile_kwargs, WithoutBackend(last'.arg.kwargs))
        /\ ("backend" \in DOMAIN compile_kwargs') <=> ("backend" \in DOMAIN compile_kwargs)
        /\ "backend" \in DOMAIN compile_kwargs' =>
              compile_kwargs'["backend"] = compile_kwargs["backend"]
\* C4 amended: for o a mapping other than the stored options object itself,
\* the stored backend is o["backend"] routed through set_backend and the
\* stored options are the previous ones updated with the other entries of o;
\* the "backend" entry of o is never merged, so the stored options hold a
\* "backend" key afterwards exactly when they held one before (one taken from
\* CompileConfig.kwargs at construction, which this call does not remove).
C4_BackendEntryRouted == [][C4_AmendedStep]_vars

\* C4 witness: set_torch_compile_kwargs({"backend": my_backend}) returned on
\* a wrapper built from kwargs {"backend": "a.b"} whose mode had been set:
\* the backend is my_backend, mode is kept, and the "backend" key that came
\* from the configuration is still stored.
C4_Witness ==
    /\ Constructed
    /\ last.op = "set_torch_compile_kwargs" /\ last.err = "none"
    /\ ~last.arg.aliased
    /\ last.arg.kwargs = ("backend" :> MyBackend)
    /\ backend = MyBackend
    /\ compile_kwargs = ("backend" :> ImportablePath) @@ ("mode" :> ReduceOverhead)

\* The documented example: {enabled: true, backend: "inductor",
\* kwargs: {mode: "max-autotune"}}.
ExampleConfig == [enabled |-> TRUE, backend |-> Inductor, kwargs |-> "mode" :> MaxAutotune]
\* The step is the first invocation, made with no custom compiler function.
FirstForwardNoFn ==
    /\ Constructed
    /\ fwd_calls = 0 /\ fwd_calls' = 1
    /\ compiler_fn = None

\* (the steps C5 describes)
C5_ForwardStep ==
    FirstForwardNoFn =>
        /\ host_calls' = 1
        /\ host_args' = [module |-> Original, backend |-> backend, kwargs |-> compile_kwargs]
        /\ fn_calls' = fn_calls
C5_ConstructStep ==
    (last'.op = "__init__" /\ last'.err = "none") =>
        /\ backend' = cfg.backend
        /\ compile_kwargs' = cfg.kwargs
C5_SetterStep ==
    (Constructed /\ (backend' # backend \/ compile_kwargs' # compile_kwargs)) =>
        /\ last'.op \in {"set_backend", "set_torch_compile_kwargs"}
        /\ last'.err = "none"
C5_ExampleConfig ==
    (supported /\ last'.op = "get_compile_config"
        /\ last'.arg = (COMPILE_CONFIG :> ExampleSection)) =>
        cfg' = ExampleConfig
C5_ExampleStep ==
    (FirstForwardNoFn /\ cfg = ExampleConfig /\ last.op = "__init__") =>
        host_args' = [module |-> Original, backend |-> Inductor,
                      kwargs |-> "mode" :> MaxAutotune]
\* C5: with no custom compiler function the first invocation calls
\* torch.compile once, with the original module and the backend and options
\* stored at that moment; these are the ones of the CompileConfig given at
\* construction, changed since only by set_backend and
\* set_torch_compile_kwargs calls that returned; the example configuration,
\* invoked right after construction, compiles with backend "inductor" (the
\* name itself) and mode = "max-autotune".
C5_HostCompileArguments ==
    [][C5_ForwardStep /\ C5_ConstructStep /\ C5_SetterStep /\ C5_ExampleConfig
         /\ C5_ExampleStep]_vars

\* C5 witness: built from the example configuration, the backend then set to
\* my_backend, the first invocation compiled with my_backend and
\* mode = "max-autotune".
C5_Witness ==
    /\ Constructed
    /\ cfg = ExampleConfig
    /\ fwd_calls = 1 /\ host_calls = 1
    /\ last.op = "forward" /\ last.err = "none"
    /\ host_args = [module |-> Original, backend |-> MyBackend,
                    kwargs |-> "mode" :> MaxAutotune]
    /\ wrapped = HostCompiled(MyBackend, "mode" :> MaxAutotune)

\* (the step C9 describes)
C9_Step ==
    (last'.op = "set_backend") =>
        LET v == last'.arg
        IN  /\ isinstance_str(v) =>
                  /\ last'.err = get_backend_fn(v.s).err
                  /\ last'.err = "none" => backend' = get_backend_fn(v.s).val
            /\ v = Inductor => last'.err = EmptyModuleName
            /\ v = ImportablePath => backend' = Attr(<<"a">>, <<"b">>)
            /\ (~isinstance_str(v) /\ callable(v)) =>
                  /\ last'.err = "none"
                  /\ backend' = v
            /\ (~isinstance_str(v) /\ ~callable(v)) => last'.err = InvalidBackendType
            /\ last'.err # "none" => backend' = backend
            /\ UNCHANGED <<compile_kwargs, compiler_fn, is_compiled, wrapped>>
C10_FailStep ==
    (last'.op = "forward" /\ last'.err # "none") =>
        /\ ~is_compiled /\ ~is_compiled'
        /\ wrapped' = Original
        /\ UNCHANGED wrapper_vars
        /\ delegations' = delegations /\ callee' = callee
        /\ compile_steps' = compile_steps + 1
C10_RetryStep ==
    (last.op = "forward" /\ last.err # "none" /\ last'.op = "forward") =>
        /\ last'.arg.compiling
        /\ compile_steps' = compile_steps + 1
\* C10: when the compile step of an invocation fails, the failure is what the
\* invocation raises, the wrapped object is not called, and the wrapper is as
\* it was: is_compiled false, the wrapped slot the original module; the next
\* invocation compiles again.
C10_FailedCompile == [][C10_FailStep /\ C10_RetryStep]_vars

\* C10 witness: the first invocation failed in torch.compile, the second
\* compiled and delegated.
C10_Witness ==
    /\ Constructed
    /\ fwd_calls = 2
    /\ compile_failures = 1
    /\ host_calls = 2
    /\ delegations = 1
    /\ is_compiled /\ callee = wrapped

\* The split of a name the claim speaks of: the last segment is what follows
\* the last dot, the module path what precedes it.
HasDot(name) == \E i \in 1..Len(name) : name[i] = Dot
LastDot(name) == CHOOSE i \in 1..Len(name) :
                    name[i] = Dot /\ \A j \in (i + 1)..Len(name) : name[j] # Dot
ModulePath(name) == SubSeq(name, 1, LastDot(name) - 1)
LastSegment(name) == SubSeq(name, LastDot(name) + 1, Len(name))

\* C6: get_backend_fn returns the attribute named by the last segment when
\* the module path is importable and holds it, and fails with the
\* backend-import error ("Could not import module ...") whenever the module
\* path cannot be imported, a name with no dot (empty module path) included
\* (stated for the names of at least one character).
C6_Original ==
    (resolved # Pending /\ Len(backend_name) > 0) =>
        /\ ~HasDot(backend_name) => resolved.err = BackendImportFailure
        /\ HasDot(backend_name) =>
              LET path == ModulePath(backend_name)
                  attr == LastSegment(backend_name)
              IN  /\ (path \in ImportableModules /\ attr \in ModuleAttrs(path)) =>
                        (resolved.err = "none" /\ resolved.val = Attr(path, attr))
                  /\ path \notin ImportableModules =>
                        resolved.err = BackendImportFailure

\* The "enabled" value of a configuration, False when absent.
EnabledIn(param_dict) ==
    /\ COMPILE_CONFIG \in DOMAIN param_dict
    /\ "enabled" \in DOMAIN param_dict[COMPILE_CONFIG]
    /\ param_dict[COMPILE_CONFIG]["enabled"]
ConfigCall == last.op = "get_compile_config"

\* C7: on a host without torch.compile, get_compile_config fails with the
\* unsupported-feature error and yields no CompileConfig when enabled is true,
\* succeeds when enabled is false, and constructing a CompiledModuleWrapper
\* always fails.
C7_UnsupportedHost ==
    ~supported =>
        /\ (ConfigCall /\ EnabledIn(last.arg)) =>
              /\ UnsupportedFeature \in last.errors
              /\ cfg = None
        /\ (ConfigCall /\ ~EnabledIn(last.arg)) =>
              /\ last.err = "none"
              /\ cfg # None
              /\ cfg.enabled = FALSE
        /\ phase # "constructed"
        /\ last.op = "__init__" =>
              /\ last.err = NotSupportedAssert
              /\ phase = "construct_failed"

\* C7 witness: on a host without torch.compile a configuration with
\* enabled = false was accepted and the construction of the wrapper failed.
C7_Witness ==
    /\ ~supported
    /\ cfg # None
    /\ last.op = "__init__"
    /\ last.arg = cfg
    /\ last.err = NotSupportedAssert
    /\ phase = "construct_failed"

\* The configuration gives a backend that is neither a string nor a callable.
BadBackendIn(param_dict) ==
    /\ COMPILE_CONFIG \in DOMAIN param_dict
    /\ "backend" \in DOMAIN param_dict[COMPILE_CONFIG]
    /\ param_dict[COMPILE_CONFIG]["backend"].kind \notin {"str", "callable", "attr"}

====
